---------------------------- MODULE Spec2Model ----------------------------
(***************************************************************************)
(* A model of relay_binance.py: the /m5-snapshot endpoint (input           *)
(* normalisation, the close-time aware cache, the closed-candle fetch, the *)
(* enrichment stages and the payload), the paginated aggTrades fetch, and  *)
(* the 1h candle fetch with the regime computed from it.                   *)
(*                                                                         *)
(* Times are milliseconds since the epoch, as in the code.  Text (the      *)
(* symbol, the raw n argument) is a sequence of one-character strings, so  *)
(* that upper-casing and integer parsing are computed, not assumed.        *)
(* Quantities and prices are integers (the code parses decimal strings to  *)
(* floats; the model draws them from integer-valued samples).              *)
(***************************************************************************)
EXTENDS Integers, Sequences, FiniteSets, TLC

VARIABLES
    clock,      \* now_ms(): the wall clock of the server
    firstBar,   \* upstream: index of the first 5m bar the exchange has
    cache,      \* _snapshot_cache: key <<symbol, n>> -> [expires, payload]
    pc,         \* per request slot: position inside m5_snapshot
    req,        \* per request slot: the handler's locals
    resp,       \* per request slot: the response returned
    started,    \* number of requests accepted so far
    nIn,        \* normalisation: the raw query arguments
    nOut,       \* normalisation: the normalised (symbol, n)
    agg,        \* fetch_agg_trades_window: the locals of one call
    reg         \* the 1h candle fetch and regime computation of one call

vars == <<clock, firstBar, cache, pc, req, resp, started, nIn, nOut, agg, reg>>

mainVars == <<clock, firstBar, cache, pc, req, resp, started>>

(***************************************************************************)
(* Configuration (module level constants of the program)                   *)
(***************************************************************************)
INTERVAL_MS == 300000

DEFAULT_N == 50

MinN == 20

MaxN == 100

MinTtlMs == 5000

Max(a, b) == IF a >= b THEN a ELSE b

Min(a, b) == IF a <= b THEN a ELSE b

(***************************************************************************)
(* Text helpers: str.upper() and int(str)                                  *)
(***************************************************************************)
LowerLetters ==
    <<"a","b","c","d","e","f","g","h","i","j","k","l","m",
      "n","o","p","q","r","s","t","u","v","w","x","y","z">>

UpperLetters ==
    <<"A","B","C","D","E","F","G","H","I","J","K","L","M",
      "N","O","P","Q","R","S","T","U","V","W","X","Y","Z">>

Digits == <<"0","1","2","3","4","5","6","7","8","9">>

IndexIn(c, s) ==
    IF \E i \in 1..Len(s) : s[i] = c
    THEN CHOOSE i \in 1..Len(s) : s[i] = c
    ELSE 0

UpperChar(c) ==
    IF IndexIn(c, LowerLetters) > 0
    THEN UpperLetters[IndexIn(c, LowerLetters)]
    ELSE c

\* str.upper(): every cased character mapped to its upper case
Upper(s) == [i \in 1..Len(s) |-> UpperChar(s[i])]

IsDigit(c) == IndexIn(c, Digits) > 0

DigitVal(c) == IndexIn(c, Digits) - 1

RECURSIVE DigitsValue(_)
DigitsValue(s) ==
    IF s = <<>> THEN 0
    ELSE 10 * DigitsValue(SubSeq(s, 1, Len(s) - 1)) + DigitVal(s[Len(s)])

RECURSIVE StripSpaces(_)
StripSpaces(s) ==
    IF s = <<>> THEN s
    ELSE IF Head(s) = " " THEN StripSpaces(Tail(s))
    ELSE IF s[Len(s)] = " " THEN StripSpaces(SubSeq(s, 1, Len(s) - 1))
    ELSE s

\* int(text): optional surrounding blanks, optional sign, one or more
\* digits; anything else raises ValueError (ok = FALSE)
ParseInt(text) ==
    LET t    == StripSpaces(text)
        neg  == t # <<>> /\ Head(t) = "-"
        sgn  == t # <<>> /\ Head(t) \in {"-", "+"}
        body == IF sgn THEN Tail(t) ELSE t
    IN  IF body # <<>> /\ \A i \in 1..Len(body) : IsDigit(body[i])
        THEN [ok |-> TRUE,
              val |-> IF neg THEN 0 - DigitsValue(body) ELSE DigitsValue(body)]
        ELSE [ok |-> FALSE, val |-> 0]

\* a query argument: absent, or present with its text
NoArg == [present |-> FALSE, text |-> <<>>]

Arg(s) == [present |-> TRUE, text |-> s]

DefaultSymbol == <<"B","T","C","U","S","D","T">>

\* request.args.get("symbol", "BTCUSDT").upper()
NormSymbol(a) == Upper(IF a.present THEN a.text ELSE DefaultSymbol)

ClampNBelowOnly(n) == Max(MinN, n)

\* n = max(20, min(100, n))
ClampN(n) == Max(MinN, Min(MaxN, n))

\* try: n = int(request.args.get("n", DEFAULT_N)) except ValueError: DEFAULT_N
\* then the clamp
NormN(a) ==
    LET p == ParseInt(a.text)
        n == IF ~a.present THEN DEFAULT_N
             ELSE IF p.ok THEN p.val
             ELSE DEFAULT_N
    IN  ClampN(n)

\* ck = (symbol, n)
CacheKey(symArg, nArg) == <<NormSymbol(symArg), NormN(nArg)>>


(***************************************************************************)
(* Upstream: GET /aggTrades and fetch_agg_trades_window                    *)
(*                                                                         *)
(* A trade is [T, q, m, hasT]: timestamp, quantity, buyer-is-maker, and    *)
(* whether the record carries its "T" key at all.  An upstream behaviour   *)
(* is [mode, tape, failAt, failKind]: the trades it holds (offsets from    *)
(* the window start, in timestamp order), how it answers a page request,   *)
(* and the page request (1, 2, ...; 0 for none) it fails, and how.         *)
(***************************************************************************)
SAFETY_MAX == 50

\* page size of one /aggTrades request (AGG_LIMIT, configurable)
PerReq == 2

\* longest run of page requests a failure is placed in
MaxFailAt == 2

Trade(off, q, m) == [T |-> off, q |-> q, m |-> m, hasT |-> TRUE]

Tapes ==
    { <<>>,
      << Trade(1000, 15, FALSE) >>,
      << Trade(1000, 15, FALSE), Trade(2000, 15, FALSE), Trade(3000, 20, TRUE) >>,
      << Trade(1000, 15, FALSE), Trade(2000, 15, FALSE), Trade(2000, 20, TRUE) >>,
      << Trade(0, 5, TRUE), Trade(150000, 7, FALSE), Trade(299999, 9, TRUE) >> }

UpModes == {"honest", "stuck", "noT", "early"}

FailKinds == {"status", "timeout", "transport"}

AggUpstreams ==
    [mode : UpModes, tape : Tapes, failAt : 0..MaxFailAt, failKind : FailKinds]

RECURSIVE SelectRange(_, _, _)
\* the trades of s whose timestamp lies in [lo, hi], in order
SelectRange(s, lo, hi) ==
    IF s = <<>> THEN <<>>
    ELSE IF lo <= Head(s).T /\ Head(s).T <= hi
         THEN <<Head(s)>> \o SelectRange(Tail(s), lo, hi)
         ELSE SelectRange(Tail(s), lo, hi)

FirstK(s, k) == SubSeq(s, 1, Min(k, Len(s)))

Shift(s, d) == [i \in 1..Len(s) |-> [s[i] EXCEPT !.T = @ + d]]

\* The answer of the exchange to page request number pageNo with the given
\* startTime, endTime and limit, for a window that starts at winStart.
AggTradesResponse(up, winStart, startTime, endTime, limit, pageNo) ==
    LET tape == Shift(up.tape, winStart)
        page ==
            CASE up.mode = "honest" -> FirstK(SelectRange(tape, startTime, endTime), limit)
              [] up.mode = "stuck"  -> FirstK(tape, limit)
              [] up.mode = "noT"    ->
                    [i \in 1..Len(FirstK(SelectRange(tape, startTime, endTime), limit)) |->
                        [FirstK(SelectRange(tape, startTime, endTime), limit)[i]
                            EXCEPT !.hasT = FALSE]]
              [] up.mode = "early"  ->
                    Shift(FirstK(up.tape, limit), winStart - INTERVAL_MS)
    IN  IF up.failAt = pageNo
        THEN [kind |-> up.failKind, batch |-> <<>>]
        ELSE [kind |-> "ok", batch |-> page]

\* the locals of fetch_agg_trades_window before its loop
AggStart(start_ms, end_ms) ==
    [pc |-> "loop", out |-> <<>>, startTime |-> start_ms, endTime |-> end_ms,
     winStart |-> start_ms, safety |-> 0, pages |-> 0]

\* One page request: session.get (which raises on a timeout or a transport
\* error: the exception leaves the function, its locals are gone), the status
\* test, the empty-batch test, the accumulation and the advance of startTime.
AggPage(st, up) ==
    LET r == AggTradesResponse(up, st.winStart, st.startTime, st.endTime,
                               PerReq, st.pages + 1)
        last   == r.batch[Len(r.batch)]
        last_T == IF last.hasT THEN last.T ELSE st.startTime
        issued == [st EXCEPT !.safety = @ + 1, !.pages = @ + 1]
    IN  IF r.kind \in {"timeout", "transport"}
        THEN [issued EXCEPT !.pc = "raised", !.out = <<>>]
        ELSE IF r.kind # "ok" \/ r.batch = <<>>
        THEN [issued EXCEPT !.pc = "returned"]
        ELSE IF last_T + 1 >= st.endTime
        THEN [issued EXCEPT !.pc = "returned", !.out = @ \o r.batch]
        ELSE [issued EXCEPT !.out = @ \o r.batch, !.startTime = last_T + 1]

\* the loop body with the ceiling test of line 229 left out
AggStepNoCeiling(st, up) == AggPage(st, up)

\* One iteration of the while loop: safety += 1 and the ceiling test, then
\* the page request.
AggStep(st, up) ==
    IF st.safety + 1 > SAFETY_MAX
    THEN [st EXCEPT !.safety = @ + 1, !.pc = "returned"]
    ELSE AggPage(st, up)

RECURSIVE AggRun(_, _)
\* fetch_agg_trades_window run to its end
AggRun(st, up) == IF st.pc # "loop" THEN st ELSE AggRun(AggStep(st, up), up)


\* agg_stats_for_window, given what fetch_agg_trades_window did: the
\* exception passes through; otherwise the volumes by aggressor side
RECURSIVE SumQty(_, _)
SumQty(s, maker) ==
    IF s = <<>> THEN 0
    ELSE (IF Head(s).m = maker THEN Head(s).q ELSE 0) + SumQty(Tail(s), maker)

AggStats(fin) ==
    LET buy_vol  == SumQty(fin.out, FALSE)
        sell_vol == SumQty(fin.out, TRUE)
        total    == buy_vol + sell_vol
    IN  [raised      |-> fin.pc = "raised",
         buy_vol     |-> buy_vol,
         sell_vol    |-> sell_vol,
         pct_agg_buy |-> IF total > 0 THEN (buy_vol * 100) \div total ELSE 0,
         delta       |-> buy_vol - sell_vol]

agg_stats_for_window(up, start_ms, end_ms) ==
    AggStats(AggRun(AggStart(start_ms, end_ms), up))

(***************************************************************************)
(* Upstream: GET /klines for the 5m interval, and fetch_klines_closed      *)
(*                                                                         *)
(* Bar i opens at i * INTERVAL_MS.  The exchange holds the bars firstBar   *)
(* .. (the bar that contains now), the last of them still open, and        *)
(* answers with the newest `limit` of them.                                *)
(***************************************************************************)
BarClose(i) == 1000 + 10 * (i % 4)

Row(i) ==
    [open_time |-> i * INTERVAL_MS,
     open      |-> BarClose(i - 1),
     high      |-> Max(BarClose(i - 1), BarClose(i)) + 1 + (i % 3),
     low       |-> Min(BarClose(i - 1), BarClose(i)) - 1,
     close     |-> BarClose(i),
     volume    |-> 10 + (i % 5)]

KlinesBody(first, now, limit) ==
    LET cur == now \div INTERVAL_MS
        lo  == Max(first, cur - limit + 1)
    IN  [k \in 1..Max(0, cur - lo + 1) |-> Row(lo + k - 1)]

\* _binance_get: a timeout, a transport error and an error status all come
\* back as status 503
BinanceGetStatus(outcome) == IF outcome = "ok" THEN 200 ELSE 503

UpstreamOutcomes == {"ok", "http_error", "timeout", "transport"}

KeepAll(s, n) == s

\* s[-n:]
LastN(s, n) == SubSeq(s, Max(1, Len(s) - n + 1), Len(s))

RECURSIVE ClosedOf(_, _)
\* the rows whose close_time = open_time + INTERVAL_MS is not after t_now
ClosedOf(raw, t_now) ==
    IF raw = <<>> THEN <<>>
    ELSE (IF Head(raw).open_time + INTERVAL_MS <= t_now
          THEN << [open_time  |-> Head(raw).open_time,
                   close_time |-> Head(raw).open_time + INTERVAL_MS,
                   open   |-> Head(raw).open,
                   high   |-> Head(raw).high,
                   low    |-> Head(raw).low,
                   close  |-> Head(raw).close,
                   volume |-> Head(raw).volume] >>
          ELSE <<>>) \o ClosedOf(Tail(raw), t_now)

\* fetch_klines_closed(symbol, n) called when the clock shows `now`
fetch_klines_closed(first, n, outcome, now) ==
    LET status == BinanceGetStatus(outcome)
        closed == ClosedOf(KlinesBody(first, now, n + 2), now)
    IN  IF status # 200
        THEN [raised |-> TRUE, candles |-> <<>>, message |-> "klines upstream 503"]
        ELSE IF closed = <<>>
        THEN [raised |-> TRUE, candles |-> <<>>, message |-> "no closed candles yet"]
        ELSE [raised |-> FALSE, candles |-> LastN(closed, n), message |-> ""]


(***************************************************************************)
(* Indicators.  atr14_from_candles is kept as 14 * ATR (the sum of the     *)
(* last 14 true ranges), the percentile rank as a percentage, the          *)
(* normalised distance in hundredths: the comparisons the guards make are  *)
(* exact on these.                                                         *)
(***************************************************************************)
DIST_MIN_x100 == 25

SPREAD_MAX_BPS == 3

MIN_DEPTH_QTY == 50

ATR_M5_PCTL_MIN_PCT == 20

SPREAD_SENTINEL == 1000000000

AtrWindow == 14

PctlWindow == 50

DeltaK == 12

Abs(x) == IF x < 0 THEN 0 - x ELSE x

TrueRange(candles, i) ==
    IF i = 1 THEN candles[i].high - candles[i].low
    ELSE Max(candles[i].high - candles[i].low,
             Max(Abs(candles[i].high - candles[i - 1].close),
                 Abs(candles[i].low - candles[i - 1].close)))

RECURSIVE SumTR(_, _, _)
SumTR(candles, lo, hi) ==
    IF lo > hi THEN 0 ELSE TrueRange(candles, lo) + SumTR(candles, lo + 1, hi)

atr14_from_candles(candles) ==
    IF Len(candles) < AtrWindow + 1 THEN 0
    ELSE SumTR(candles, Len(candles) - AtrWindow + 1, Len(candles))

\* atr_series: the ATR of every prefix candles[:i+1], i = 1 .. len - 1
AtrSeries(candles) ==
    [i \in 1..(Len(candles) - 1) |-> atr14_from_candles(SubSeq(candles, 1, i + 1))]

\* _percentile_rank(series, value), in percent
PercentileRank(series, value) ==
    IF series = <<>> THEN 100
    ELSE (Cardinality({i \in 1..Len(series) : series[i] <= value}) * 100)
            \div Len(series)

(***************************************************************************)
(* fetch_klines_closed_interval for the 1h candles of the regime, ema and  *)
(* slope_dir.  The exchange's 1h bar i opens at i * H1_MS; its answer is   *)
(* given by the bar indexes it holds (gaps allowed) and a price pattern.   *)
(* EMA values are fixed-point numbers in thousandths (the code uses        *)
(* floats); the samples keep the comparisons made on them away from the    *)
(* rounding.                                                               *)
(***************************************************************************)
H1_MS == 3600000

H1_LIMIT == 250

EMA_PERIOD == 200

SlopeLookback == 5

H1Patterns == {"flat", "rising", "wave"}

H1Close(p, i) ==
    CASE p = "flat"   -> 1000
      [] p = "rising" -> 1000 + 2 * i
      [] p = "wave"   -> 1000 + 10 * (i % 4)

H1Row(p, i) ==
    [open_time |-> i * H1_MS,
     open      |-> H1Close(p, i - 1),
     high      |-> Max(H1Close(p, i - 1), H1Close(p, i)) + 1 + (i % 3),
     low       |-> Min(H1Close(p, i - 1), H1Close(p, i)) - 1,
     close     |-> H1Close(p, i),
     volume    |-> 10 + (i % 5)]

\* the exchange's answer: the newest `limit` of the bars it holds
H1Body(idx, p, limit) == LastN([k \in 1..Len(idx) |-> H1Row(p, idx[k])], limit)

\* close_time of raw[i]: the next row's open_time; for the last row its
\* open_time plus the distance to the row before it, or plus INTERVAL_MS
\* when it is the only row
IntervalCloseTime(raw, i) ==
    IF i + 1 <= Len(raw) THEN raw[i + 1].open_time
    ELSE raw[i].open_time
            + (IF i > 1 THEN raw[i].open_time - raw[i - 1].open_time
               ELSE INTERVAL_MS)

\* the row raw[i] as a candle, if it has closed by t_now
ClosedIntervalRow(raw, i, t_now) ==
    IF IntervalCloseTime(raw, i) <= t_now
    THEN << [open_time  |-> raw[i].open_time,
             close_time |-> IntervalCloseTime(raw, i),
             open   |-> raw[i].open,
             high   |-> raw[i].high,
             low    |-> raw[i].low,
             close  |-> raw[i].close,
             volume |-> raw[i].volume] >>
    ELSE <<>>

RECURSIVE ClosedIntervalRange(_, _, _, _)
\* the loop of lines 89-109 over raw[lo..hi] (split in halves, in order)
ClosedIntervalRange(raw, lo, hi, t_now) ==
    IF lo > hi THEN <<>>
    ELSE IF lo = hi THEN ClosedIntervalRow(raw, lo, t_now)
    ELSE ClosedIntervalRange(raw, lo, (lo + hi) \div 2, t_now)
            \o ClosedIntervalRange(raw, ((lo + hi) \div 2) + 1, hi, t_now)

\* fetch_klines_closed_interval(symbol, interval, n) when the exchange holds
\* the bars idx and the clock shows `now`
fetch_klines_closed_interval(idx, p, n, outcome, now) ==
    LET status == BinanceGetStatus(outcome)
        raw    == H1Body(idx, p, n + 2)
        closed == ClosedIntervalRange(raw, 1, Len(raw), now)
    IN  IF status # 200
        THEN [raised |-> TRUE, candles |-> <<>>, message |-> "klines upstream 503"]
        ELSE IF closed = <<>>
        THEN [raised |-> TRUE, candles |-> <<>>, message |-> "no closed candles yet"]
        ELSE [raised |-> FALSE, candles |-> LastN(closed, n), message |-> ""]

\* e = v * k + e * (1 - k) with k = 2 / (period + 1)
EmaStep(v, period, e) == (2 * v * 1000 + (period - 1) * e) \div (period + 1)

RECURSIVE EmaFold(_, _, _)
\* the loop `for v in values[1:]`: st.e is the EMA of values[1 .. st.i - 1]
\* (eight values at a time while eight remain)
EmaFold(values, period, st) ==
    IF st.i > Len(values) THEN st.e
    ELSE IF st.i + 7 <= Len(values)
    THEN EmaFold(values, period,
             [i |-> st.i + 8,
              e |-> EmaStep(values[st.i + 7], period,
                    EmaStep(values[st.i + 6], period,
                    EmaStep(values[st.i + 5], period,
                    EmaStep(values[st.i + 4], period,
                    EmaStep(values[st.i + 3], period,
                    EmaStep(values[st.i + 2], period,
                    EmaStep(values[st.i + 1], period,
                    EmaStep(values[st.i], period, st.e))))))))])
    ELSE EmaFold(values, period,
             [i |-> st.i + 1, e |-> EmaStep(values[st.i], period, st.e)])

\* ema(values, period), in thousandths
ema(values, period) ==
    IF values = <<>> \/ period <= 1 \/ Len(values) < period THEN 0
    ELSE EmaFold(values, period, [i |-> 2, e |-> values[1] * 1000])

\* slope_dir(series, lookback)
slope_dir(series, lookback) ==
    IF Len(series) <= lookback THEN 0
    ELSE LET a   == series[Len(series)]
             b   == series[Len(series) - lookback]
             tol == Abs(a) \div 10000
         IN  IF a > b + tol THEN 1 ELSE IF a < b - tol THEN 0 - 1 ELSE 0

\* lines 253-267 of compute_regime_h1: the indicator values of the fetched
\* 1h candles, in units of 1/14000 (ema in thousandths times 14, ATR as the
\* sum of 14 true ranges times 1000), which leaves every comparison and the
\* normalised distance as they are
H1Indicators(fetch) ==
    IF fetch.raised
    THEN [outcome |-> IF fetch.message = "no closed candles yet"
                      THEN "no_closed" ELSE "http_error",
          ema200 |-> 0, slope |-> 0, close |-> 0, atr14 |-> 0]
    ELSE LET cs     == fetch.candles
             closes == [i \in 1..Len(cs) |-> cs[i].close]
             series == [i \in 1..Len(cs) |->
                           EmaFold(SubSeq(closes, 1, i), EMA_PERIOD,
                                   [i |-> 2, e |-> closes[1] * 1000])]
         IN  [outcome |-> "ok",
              ema200  |-> 14 * ema(closes, EMA_PERIOD),
              slope   |-> slope_dir(series, SlopeLookback),
              close   |-> 14000 * closes[Len(closes)],
              atr14   |-> 1000 * atr14_from_candles(cs)]

(***************************************************************************)
(* Regime: compute_regime_h1 on what the 1h candle fetch produced.  h1 is  *)
(* [outcome, ema200, slope, close, atr14]: "ok" or the way the 1h candle   *)
(* fetch failed and, for a successful fetch, the indicator values of the   *)
(* 1h candles.                                                             *)
(***************************************************************************)
compute_regime_h1(h1) ==
    IF h1.outcome # "ok"
    THEN [raised |-> TRUE]
    ELSE [raised                |-> FALSE,
          ema200_h1             |-> h1.ema200,
          ema200_h1_slope       |-> h1.slope,
          close_h1              |-> h1.close,
          atr14_h1              |-> h1.atr14,
          distance_to_ema200_h1 |->
              IF h1.atr14 <= 0 THEN 0
              ELSE (Abs(h1.close - h1.ema200) * 100) \div h1.atr14,
          regime_above          |-> h1.close > h1.ema200,
          regime_below          |-> h1.close < h1.ema200,
          error                 |-> "" ]

\* the try/except around compute_regime_h1 in m5_snapshot
RegimeStage(h1) ==
    IF compute_regime_h1(h1).raised
    THEN [raised |-> FALSE,
          ema200_h1 |-> 0, ema200_h1_slope |-> 0, close_h1 |-> 0,
          atr14_h1 |-> 0, distance_to_ema200_h1 |-> 0,
          regime_above |-> FALSE, regime_below |-> FALSE,
          error |-> IF h1.outcome = "no_closed" THEN "no closed candles yet"
                    ELSE "klines upstream 503"]
    ELSE compute_regime_h1(h1)

(***************************************************************************)
(* Depth: depth_snapshot on the /depth answer d = [outcome, bids, asks],   *)
(* each level <<price, qty>>.                                              *)
(***************************************************************************)
RECURSIVE SumLevels(_)
SumLevels(levels) ==
    IF levels = <<>> THEN 0 ELSE Head(levels)[2] + SumLevels(Tail(levels))

depth_snapshot(d) ==
    LET bid_sum == SumLevels(d.bids)
        ask_sum == SumLevels(d.asks)
        denom   == bid_sum + ask_sum
        bb      == d.bids[1][1]
        ba      == d.asks[1][1]
    IN  IF BinanceGetStatus(d.outcome) # 200
        THEN [none |-> TRUE, IB |-> 0, spread_bps |-> 0, depth_top5_qty |-> 0]
        ELSE [none |-> FALSE,
              IB |-> IF denom > 0 THEN ((bid_sum - ask_sum) * 100) \div denom ELSE 0,
              spread_bps |->
                  IF d.bids # <<>> /\ d.asks # <<>>
                  THEN IF bb + ba = 0 THEN 0
                       ELSE ((ba - bb) * 20000) \div (bb + ba)
                  ELSE SPREAD_SENTINEL,
              depth_top5_qty |-> bid_sum + ask_sum]

DepthStageNoDefault(d) == depth_snapshot(d)

\* depth_snapshot(symbol, limit=5) or {"IB": 0.0, "spread_bps": 1e9, ...}
DepthStage(d) ==
    IF depth_snapshot(d).none
    THEN [none |-> FALSE, IB |-> 0, spread_bps |-> SPREAD_SENTINEL,
          depth_top5_qty |-> 0]
    ELSE depth_snapshot(d)


(***************************************************************************)
(* Flow: the try/except of m5_snapshot around agg_stats_for_window for the *)
(* last candle and deltas_last_k_m5 for the (up to) 12 candles before it.  *)
(* upLast answers the page requests of the last candle's window, upHist    *)
(* those of every earlier window.                                          *)
(***************************************************************************)
deltas_last_k_m5(candles, upHist) ==
    LET take   == Min(DeltaK, Max(0, Len(candles) - 1))
        window == SubSeq(candles, Len(candles) - take, Len(candles) - 1)
    IN  [i \in 1..take |->
            agg_stats_for_window(upHist, window[i].open_time, window[i].close_time)]

\* coverage is "full" on the try branch and "unknown" on the except branch
FlowCoverage(raised) == IF raised THEN "unknown" ELSE "full"

FlowStage(candles, upLast, upHist) ==
    LET last   == candles[Len(candles)]
        fl     == agg_stats_for_window(upLast, last.open_time, last.close_time)
        hist   == IF fl.raised THEN <<>> ELSE deltas_last_k_m5(candles, upHist)
        raised == fl.raised \/ \E i \in 1..Len(hist) : hist[i].raised
    IN  IF raised
        THEN [buy_vol |-> 0, sell_vol |-> 0, pct_agg_buy |-> 0, delta |-> 0,
              coverage |-> FlowCoverage(TRUE)]
        ELSE [buy_vol |-> fl.buy_vol, sell_vol |-> fl.sell_vol,
              pct_agg_buy |-> fl.pct_agg_buy, delta |-> fl.delta,
              coverage |-> FlowCoverage(FALSE)]

\* what the page requests for the last candle's window met: the exchange
\* failed one of them, and the number of trades they brought back
LastWindowFetch(candles, upLast) ==
    LET last == candles[Len(candles)]
        fin  == AggRun(AggStart(last.open_time, last.close_time), upLast)
    IN  [failed  |-> upLast.failAt \in 1..fin.pages,
         raised  |-> fin.pc = "raised",
         pages   |-> fin.pages,
         ntrades |-> Len(fin.out)]

(***************************************************************************)
(* Guards and payload                                                      *)
(***************************************************************************)
Guards(regime, depth, atr_m5_pct) ==
    [distance_ok |-> regime.atr14_h1 > 0
                        /\ regime.distance_to_ema200_h1 >= DIST_MIN_x100,
     spread_ok   |-> depth.spread_bps <= SPREAD_MAX_BPS,
     depth_ok    |-> depth.depth_top5_qty >= MIN_DEPTH_QTY,
     market_ok   |-> atr_m5_pct >= ATR_M5_PCTL_MIN_PCT,
     distance_to_EMA200_H1 |-> regime.distance_to_ema200_h1,
     atr_m5_percentile     |-> atr_m5_pct,
     spread_bps            |-> depth.spread_bps,
     depth_top5_qty        |-> depth.depth_top5_qty]

Payload(symbol, t_now, candles, flow, regime, depth) ==
    LET last       == candles[Len(candles)]
        atr_m5     == atr14_from_candles(candles)
        atr_m5_pct == PercentileRank(LastN(AtrSeries(candles), PctlWindow), atr_m5)
    IN  [symbol      |-> symbol,
         interval    |-> "5m",
         server_time |-> t_now,
         candles     |-> candles,
         flow_last_candle |->
             [open_time  |-> last.open_time,
              close_time |-> last.close_time,
              buy_volume |-> flow.buy_vol,
              sell_volume |-> flow.sell_vol,
              pct_aggressive_buy |-> flow.pct_agg_buy,
              delta      |-> flow.delta,
              coverage   |-> flow.coverage],
         indicators  |-> [atr14_m5 |-> atr_m5],
         regime_h1   |->
             [ema200     |-> regime.ema200_h1,
              slope_dir  |-> regime.ema200_h1_slope,
              close      |-> regime.close_h1,
              atr14_h1   |-> regime.atr14_h1,
              distance_to_ema200 |-> regime.distance_to_ema200_h1,
              regime_above |-> regime.regime_above,
              regime_below |-> regime.regime_below],
         depth_snapshot |->
             [IB |-> depth.IB, spread_bps |-> depth.spread_bps,
              depth_top5_qty |-> depth.depth_top5_qty],
         guards      |-> Guards(regime, depth, atr_m5_pct),
         meta        |-> [data_version |-> "snap_1.1"]]

(***************************************************************************)
(* The cache                                                               *)
(***************************************************************************)
ExpiresNoFloor(t_now, last_close) == last_close + INTERVAL_MS

\* next_close = last_close + INTERVAL_MS; ttl_ms = max(5_000, next_close - t_now);
\* expires = t_now + ttl_ms
Expires(t_now, last_close) ==
    t_now + Max(MinTtlMs, (last_close + INTERVAL_MS) - t_now)

CacheHitAlways(c, ck, t_now) == ck \in DOMAIN c

\* cached and t_now < cached.get("expires", 0)
CacheHit(c, ck, t_now) == ck \in DOMAIN c /\ t_now < c[ck].expires

StoreNothing(c, ck, entry) == c

StoreMixed(c, ck, entry) ==
    IF ck \in DOMAIN c
    THEN (ck :> [expires |-> entry.expires, payload |-> c[ck].payload]) @@ c
    ELSE (ck :> entry) @@ c

\* _snapshot_cache[ck] = {"expires": ..., "payload": payload}
Store(c, ck, entry) == (ck :> entry) @@ c


(***************************************************************************)
(* Bounds and input samples                                                *)
(***************************************************************************)
\* request slots (concurrent handler threads)
NumReq == 2

\* requests accepted in one behaviour
MaxStarts == 3

\* clock readings modelled (the first instant included)
NumInstants == 5

\* longest exchange history (bars before the first instant)
MaxHistory == 2

Reqs == 1..NumReq

Histories == {0, MaxHistory}

\* bar k of the run closes at BarEnd(k)
BarEnd(k) == (MaxHistory + k) * INTERVAL_MS

\* the instants at which the clock is read: the first one, then around each
\* bar close 1 ms before it, the close itself, 1 ms and 5 s after it
InstantAt(i) ==
    IF i = 1 THEN BarEnd(0)
    ELSE LET k == ((i - 2) \div 4) + 1
             j == (i - 2) % 4
         IN  CASE j = 0 -> BarEnd(k) - 1
               [] j = 1 -> BarEnd(k)
               [] j = 2 -> BarEnd(k) + 1
               [] j = 3 -> BarEnd(k) + MinTtlMs

Instants == {InstantAt(i) : i \in 1..NumInstants}

\* the query strings of the requests
MainRequests ==
    { [symbol |-> Arg(<<"b","t","c">>), n |-> Arg(<<"5">>)],
      [symbol |-> Arg(<<"B","T","C">>), n |-> Arg(<<" ","2","0">>)] }

H1Ok == [outcome |-> "ok", ema200 |-> 1000, slope |-> 1, close |-> 1010, atr14 |-> 20]

H1Samples ==
    { H1Ok,
      [outcome |-> "ok", ema200 |-> 1000, slope |-> 0, close |-> 1000, atr14 |-> 0],
      [outcome |-> "http_error", ema200 |-> 0, slope |-> 0, close |-> 0, atr14 |-> 0],
      [outcome |-> "timeout", ema200 |-> 0, slope |-> 0, close |-> 0, atr14 |-> 0] }

DepthOk ==
    [outcome |-> "ok",
     bids |-> << <<9999, 30>>, <<9998, 40>> >>,
     asks |-> << <<10001, 30>>, <<10002, 10>> >>]

DepthSamples ==
    { DepthOk,
      [outcome |-> "ok", bids |-> <<>>, asks |-> <<>>],
      [outcome |-> "ok", bids |-> << <<9999, 30>>, <<9998, 40>> >>, asks |-> <<>>],
      [outcome |-> "ok", bids |-> <<>>, asks |-> << <<10001, 30>> >>],
      [outcome |-> "ok", bids |-> << <<9990, 5>> >>, asks |-> << <<10010, 5>> >>],
      [outcome |-> "http_error", bids |-> <<>>, asks |-> <<>>],
      [outcome |-> "transport", bids |-> <<>>, asks |-> <<>>] }

UpOk ==
    [mode |-> "honest",
     tape |-> << Trade(1000, 15, FALSE), Trade(2000, 15, FALSE), Trade(3000, 20, TRUE) >>,
     failAt |-> 0, failKind |-> "status"]

UpFail(k, kind) == [UpOk EXCEPT !.failAt = k, !.failKind = kind]

LastSamples ==
    { UpOk, [UpOk EXCEPT !.tape = <<>>],
      UpFail(1, "status"), UpFail(2, "status"),
      UpFail(1, "timeout"), UpFail(2, "transport") }

HistSamples == { UpOk, UpFail(1, "timeout"), UpFail(1, "status") }

\* what the upstream calls of one cache miss meet after the candle fetch
EnrichOk == [h1 |-> H1Ok, upLast |-> UpOk, upHist |-> UpOk, depth |-> DepthOk]

\* the concurrent specification runs the enrichment on the healthy upstream;
\* SpecOne runs it on every combination of AllEnrichInputs
EnrichInputs == {EnrichOk}

AllEnrichInputs ==
    [h1 : H1Samples, upLast : LastSamples, upHist : HistSamples, depth : DepthSamples]

(***************************************************************************)
(* m5_snapshot                                                             *)
(***************************************************************************)
NoLastFetch == [failed |-> FALSE, raised |-> FALSE, pages |-> 0, ntrades |-> 0]

NoReq == [symbol |-> <<>>, n |-> 0, t_now |-> 0, candles |-> <<>>, calls |-> 0]

NoResp ==
    [status |-> 0, via |-> "none", key |-> <<>>, t_now |-> 0, calls |-> 0,
     lastFetch |-> NoLastFetch, body |-> [code |-> "none", message |-> ""]]

AggIdle == [up |-> UpOk, st |-> [AggStart(0, 0) EXCEPT !.pc = "idle"]]

NormIdle == [symbol |-> NoArg, n |-> NoArg]

RegIdle == [pc |-> "idle"]

MainInit ==
    /\ clock = BarEnd(0)
    /\ firstBar \in {MaxHistory - h : h \in Histories}
    /\ cache = << >>
    /\ pc = [r \in Reqs |-> "idle"]
    /\ req = [r \in Reqs |-> NoReq]
    /\ resp = [r \in Reqs |-> NoResp]
    /\ started = 0

\* time passes
Tick ==
    /\ \E t \in Instants : t > clock /\ clock' = t
    /\ UNCHANGED <<firstBar, cache, pc, req, resp, started, nIn, nOut, agg, reg>>

\* lines 311-323: normalise, read the clock, look the key up; a hit returns
\* the stored payload at once
Start(r, a) ==
    /\ pc[r] \in {"idle", "done"}
    /\ \A q \in 1..(r - 1) : pc[q] \notin {"idle", "done"}
    /\ started < MaxStarts
    /\ started' = started + 1
    /\ LET symbol == NormSymbol(a.symbol)
           n      == NormN(a.n)
           ck     == <<symbol, n>>
           t_now  == clock
       IN  IF CacheHit(cache, ck, t_now)
           THEN /\ resp' = [resp EXCEPT ![r] =
                       [status |-> 200, via |-> "hit", key |-> ck, t_now |-> t_now,
                        calls |-> 0, lastFetch |-> NoLastFetch,
                        body |-> cache[ck].payload]]
                /\ pc' = [pc EXCEPT ![r] = "done"]
                /\ req' = [req EXCEPT ![r] = NoReq]
           ELSE /\ resp' = [resp EXCEPT ![r] = NoResp]
                /\ pc' = [pc EXCEPT ![r] = "klines"]
                /\ req' = [req EXCEPT ![r] =
                       [symbol |-> symbol, n |-> n, t_now |-> t_now,
                        candles |-> <<>>, calls |-> 0]]
    /\ UNCHANGED <<clock, firstBar, cache, nIn, nOut, agg, reg>>

FetchKlinesStoresError(r, outcome) ==
    /\ pc[r] = "klines"
    /\ LET got == fetch_klines_closed(firstBar, req[r].n, outcome, clock)
           ck  == <<req[r].symbol, req[r].n>>
       IN  IF got.raised
           THEN /\ resp' = [resp EXCEPT ![r] =
                       [status |-> 503, via |-> "error", key |-> ck,
                        t_now |-> req[r].t_now, calls |-> req[r].calls + 1,
                        lastFetch |-> NoLastFetch,
                        body |-> [code |-> "SNAPSHOT_NOT_READY",
                                  message |-> got.message]]]
                /\ cache' = Store(cache, ck,
                       [expires |-> req[r].t_now + MinTtlMs,
                        payload |-> [code |-> "SNAPSHOT_NOT_READY",
                                     message |-> got.message]])
                /\ pc' = [pc EXCEPT ![r] = "done"]
                /\ req' = [req EXCEPT ![r] = NoReq]
           ELSE /\ pc' = [pc EXCEPT ![r] = "enrich"]
                /\ req' = [req EXCEPT ![r].candles = got.candles,
                                      ![r].calls = @ + 1]
                /\ UNCHANGED <<resp, cache>>
    /\ UNCHANGED <<clock, firstBar, started, nIn, nOut, agg, reg>>

\* lines 325-333: the candle fetch; a failure answers 503 and returns
FetchKlines(r, outcome) ==
    /\ pc[r] = "klines"
    /\ LET got == fetch_klines_closed(firstBar, req[r].n, outcome, clock)
       IN  IF got.raised
           THEN /\ resp' = [resp EXCEPT ![r] =
                       [status |-> 503, via |-> "error",
                        key |-> <<req[r].symbol, req[r].n>>,
                        t_now |-> req[r].t_now, calls |-> req[r].calls + 1,
                        lastFetch |-> NoLastFetch,
                        body |-> [code |-> "SNAPSHOT_NOT_READY",
                                  message |-> got.message]]]
                /\ pc' = [pc EXCEPT ![r] = "done"]
                /\ req' = [req EXCEPT ![r] = NoReq]
           ELSE /\ pc' = [pc EXCEPT ![r] = "enrich"]
                /\ req' = [req EXCEPT ![r].candles = got.candles,
                                      ![r].calls = @ + 1]
                /\ UNCHANGED resp
    /\ UNCHANGED <<clock, firstBar, cache, started, nIn, nOut, agg, reg>>

\* the upstream requests lines 335-371 issue: one for the 1h candles, the
\* pages of the trade windows, one for the depth
EnrichCalls(candles, e) ==
    LET lastF == LastWindowFetch(candles, e.upLast)
        take  == Min(DeltaK, Max(0, Len(candles) - 1))
        histF == LastWindowFetch(SubSeq(candles, 1, Max(1, Len(candles) - 1)), e.upHist)
    IN  1 + lastF.pages
          + (IF lastF.raised \/ take = 0 THEN 0
             ELSE IF histF.raised THEN histF.pages ELSE take * histF.pages)
          + 1

\* lines 335-435: regime, flow, ATR, depth, guards, payload, the store into
\* the cache and the 200 response
Enrich(r, e) ==
    /\ pc[r] = "enrich"
    /\ LET candles == req[r].candles
           last    == candles[Len(candles)]
           ck      == <<req[r].symbol, req[r].n>>
           payload == Payload(req[r].symbol, req[r].t_now, candles,
                              FlowStage(candles, e.upLast, e.upHist),
                              RegimeStage(e.h1), DepthStage(e.depth))
           entry   == [expires |-> Expires(req[r].t_now, last.close_time),
                       payload |-> payload]
       IN  /\ cache' = Store(cache, ck, entry)
           /\ resp' = [resp EXCEPT ![r] =
                  [status |-> 200, via |-> "miss", key |-> ck,
                   t_now |-> req[r].t_now,
                   calls |-> req[r].calls + EnrichCalls(candles, e),
                   lastFetch |-> LastWindowFetch(candles, e.upLast),
                   body |-> payload]]
    /\ pc' = [pc EXCEPT ![r] = "done"]
    /\ req' = [req EXCEPT ![r] = NoReq]
    /\ UNCHANGED <<clock, firstBar, started, nIn, nOut, agg, reg>>

Init ==
    /\ MainInit
    /\ reg = RegIdle
    /\ nIn = NormIdle
    /\ nOut = <<>>
    /\ agg = AggIdle

Next ==
    \/ Tick
    \/ \E r \in Reqs, a \in MainRequests : Start(r, a)
    \/ \E r \in Reqs, o \in UpstreamOutcomes : FetchKlines(r, o)
    \/ \E r \in Reqs, e \in EnrichInputs : Enrich(r, e)

\* concurrent requests against one cache
Spec == Init /\ [][Next]_vars


(***************************************************************************)
(* One request against an empty cache, with every sampled behaviour of the *)
(* regime, trade-history and depth upstream calls                          *)
(***************************************************************************)
StartOne(a) == started = 0 /\ Start(1, a)

NextOne ==
    \/ Tick
    \/ \E a \in MainRequests : StartOne(a)
    \/ \E o \in UpstreamOutcomes : FetchKlines(1, o)
    \/ \E e \in AllEnrichInputs : Enrich(1, e)

SpecOne == Init /\ [][NextOne]_vars

(***************************************************************************)
(* Input normalisation alone, over many raw arguments                      *)
(***************************************************************************)
\* longest raw n argument
MaxArgLen == 3

NChars == {"0", "1", "5", "-", " ", "a"}

RECURSIVE SeqsUpTo(_, _)
SeqsUpTo(S, k) ==
    IF k = 0 THEN {<<>>}
    ELSE LET shorter == SeqsUpTo(S, k - 1)
         IN  shorter \cup {Append(t, c) : t \in shorter, c \in S}

NArgs ==
    {NoArg, Arg(<<"a","b","c">>), Arg(<<"+","2","0">>)}
        \cup {Arg(t) : t \in SeqsUpTo(NChars, MaxArgLen)}

SymArgs ==
    {NoArg, Arg(<<"b","t","c">>), Arg(<<"B","T","C">>), Arg(<<"b","T","c">>),
     Arg(<<"e","t","h">>), Arg(<<"1","i","n","c","h">>)}

NormInputs == [symbol : SymArgs, n : NArgs]

InitNorm ==
    /\ MainInit
    /\ reg = RegIdle
    /\ firstBar = 0
    /\ nIn \in NormInputs
    /\ nOut = <<>>
    /\ agg = AggIdle

\* lines 311-319 on the arguments nIn
Normalize ==
    /\ nOut = <<>>
    /\ nOut' = CacheKey(nIn.symbol, nIn.n)
    /\ UNCHANGED <<clock, firstBar, cache, pc, req, resp, started, nIn, agg, reg>>

NextNorm == Normalize

SpecNorm == InitNorm /\ [][NextNorm]_vars

(***************************************************************************)
(* fetch_agg_trades_window alone, one loop iteration per step, over every  *)
(* sampled upstream behaviour                                              *)
(***************************************************************************)
InitAgg ==
    /\ MainInit
    /\ reg = RegIdle
    /\ firstBar = 0
    /\ nIn = NormIdle
    /\ nOut = <<>>
    /\ agg \in {[up |-> u, st |-> AggStart(BarEnd(0), BarEnd(1))] : u \in AggUpstreams}

AggIterate ==
    /\ agg.st.pc = "loop"
    /\ agg' = [agg EXCEPT !.st = AggStep(@, agg.up)]
    /\ UNCHANGED <<clock, firstBar, cache, pc, req, resp, started, nIn, nOut, reg>>

NextAgg == AggIterate

\* the handler thread keeps running: an enabled iteration is taken
SpecAgg == InitAgg /\ [][NextAgg]_vars /\ WF_vars(AggIterate)


(***************************************************************************)
(* One request against an exchange with a long history: the clock stands   *)
(* around the close of bar LongBars - 1 and the exchange holds the bars    *)
(* from firstBar on, so that the fetch meets more than n + 2 bars, exactly *)
(* enough, too few, or only the open bar.                                  *)
(***************************************************************************)
\* index of the bar that opens at the instants of this specification
LongBars == 24

LongInstants ==
    {LongBars * INTERVAL_MS - 1, LongBars * INTERVAL_MS, LongBars * INTERVAL_MS + 1}

LongRequests ==
    { [symbol |-> Arg(<<"b","t","c">>), n |-> Arg(<<"2","0">>)],
      [symbol |-> Arg(<<"b","t","c">>), n |-> Arg(<<"2","1">>)] }

InitLong ==
    /\ clock \in LongInstants
    /\ firstBar \in 0..LongBars
    /\ cache = << >>
    /\ pc = [r \in Reqs |-> "idle"]
    /\ req = [r \in Reqs |-> NoReq]
    /\ resp = [r \in Reqs |-> NoResp]
    /\ started = 0
    /\ reg = RegIdle
    /\ nIn = NormIdle
    /\ nOut = <<>>
    /\ agg = AggIdle

NextLong ==
    \/ \E a \in LongRequests : StartOne(a)
    \/ \E o \in UpstreamOutcomes : FetchKlines(1, o)
    \/ Enrich(1, EnrichOk)

SpecLong == InitLong /\ [][NextLong]_vars

(***************************************************************************)
(* compute_regime_h1 alone: the 1h candle fetch, the indicators, the       *)
(* try/except of m5_snapshot around it and the distance guard, over        *)
(* exchange answers of every length around the thresholds of the code      *)
(* (1 bar, 15 candles for the ATR, 200 for the EMA, the 252 requested) and *)
(* answers with gaps                                                       *)
(***************************************************************************)
H1Counts ==
    {1, 2, AtrWindow + 1, AtrWindow + 2, EMA_PERIOD - 1, EMA_PERIOD + 1,
     EMA_PERIOD + 2, H1_LIMIT + 3}

\* the bar indexes the exchange holds: a run from 0, or a run with gaps
H1Shapes ==
    {[k \in 1..c |-> k - 1] : c \in H1Counts}
        \cup { <<0, 1, 3>>, <<0, 2, 3>>, <<0, 1, 2, 5>> }

\* the clock at the fetch, counted from the open of the newest bar held
H1Phases == {1, INTERVAL_MS - 1, INTERVAL_MS, H1_MS - 1, H1_MS, 2 * H1_MS + 1}

RegInputs ==
    [idx : H1Shapes, pattern : H1Patterns, phase : H1Phases,
     outcome : UpstreamOutcomes]

RegStart(in) ==
    [pc |-> "call", idx |-> in.idx, pattern |-> in.pattern,
     now |-> in.idx[Len(in.idx)] * H1_MS + in.phase, outcome |-> in.outcome,
     raised |-> FALSE, candles |-> <<>>, regime |-> <<>>, guards |-> <<>>]

InitH1 ==
    /\ MainInit
    /\ firstBar = 0
    /\ nIn = NormIdle
    /\ nOut = <<>>
    /\ agg = AggIdle
    /\ reg \in {RegStart(in) : in \in RegInputs}

\* lines 335-343 and 374: compute_regime_h1 under its try/except, and the
\* guards on the regime block
RegimeCall ==
    /\ reg.pc = "call"
    /\ LET fetch  == fetch_klines_closed_interval(reg.idx, reg.pattern, H1_LIMIT,
                                                  reg.outcome, reg.now)
           regime == RegimeStage(H1Indicators(fetch))
       IN  reg' = [reg EXCEPT !.pc = "done",
                              !.raised = fetch.raised,
                              !.candles = fetch.candles,
                              !.regime = regime,
                              !.guards = Guards(regime, DepthStage(DepthOk), 100)]
    /\ UNCHANGED <<clock, firstBar, cache, pc, req, resp, started, nIn, nOut, agg>>

NextH1 == RegimeCall

SpecH1 == InitH1 /\ [][NextH1]_vars

(***************************************************************************)
(* Properties                                                              *)
(***************************************************************************)
Free(r) == pc[r] \in {"idle", "done"}

\* a request is accepted in this step, into slot ArrivalSlot, for key ArrKey
Arrive == started' = started + 1

ArrivalSlot == CHOOSE r \in Reqs : Free(r) /\ \A q \in 1..(r - 1) : ~Free(q)

ArrKey ==
    IF pc'[ArrivalSlot] = "klines"
    THEN <<req'[ArrivalSlot].symbol, req'[ArrivalSlot].n>>
    ELSE resp'[ArrivalSlot].key

\* the close of the bar after the document's last candle
NextClose(doc) == doc.candles[Len(doc.candles)].close_time + INTERVAL_MS

\* C1 (as stated): once a request for a key has succeeded, every further
\* request for that key arriving before the next bar closes returns the
\* identical document.
C1_IdenticalToEarlier ==
    [][Arrive =>
        \A q \in Reqs :
            (/\ q # ArrivalSlot
             /\ pc[q] = "done"
             /\ resp[q].status = 200
             /\ resp[q].key = ArrKey
             /\ clock < NextClose(resp[q].body))
            => (/\ pc'[ArrivalSlot] = "done"
                /\ resp'[ArrivalSlot].status = 200
                /\ resp'[ArrivalSlot].body = resp[q].body)]_vars

\* the instant from which the code no longer serves a stored document
DocExpiry(doc) == Max(doc.server_time + MinTtlMs, NextClose(doc))

\* C2 (as amended): a request that arrives at or after
\* max(server_time + 5 s, last candle close_time + bar duration) of the
\* stored document is not answered from it: it goes on to fetch candles.
C2_MissAfterExpiry ==
    [][Arrive =>
        ((ArrKey \in DOMAIN cache /\ clock >= DocExpiry(cache[ArrKey].payload))
            => (pc'[ArrivalSlot] = "klines" /\ resp'[ArrivalSlot].via = "none"))]_vars

\* C2 witness: a request past the expiry of the stored document, on its way
\* to the candle fetch
C2_Witness ==
    \E r \in Reqs :
        /\ pc[r] = "klines"
        /\ <<req[r].symbol, req[r].n>> \in DOMAIN cache
        /\ req[r].t_now >= DocExpiry(cache[<<req[r].symbol, req[r].n>>].payload)

\* C2 (as stated): a request issued after the bar following the stored
\* document's last candle has closed is never answered from the cache.
C2_MissAfterNextClose ==
    [][Arrive =>
        ((ArrKey \in DOMAIN cache /\ clock > NextClose(cache[ArrKey].payload))
            => pc'[ArrivalSlot] = "klines")]_vars

\* C3 (as stated): in every document returned, every candle's close_time is
\* at most the document's server_time.
C3_NoOpenBarLeaks ==
    \A r \in Reqs :
        resp[r].status = 200 =>
            \A i \in 1..Len(resp[r].body.candles) :
                resp[r].body.candles[i].close_time <= resp[r].body.server_time

NoClosedBars(r) ==
    ClosedOf(KlinesBody(firstBar, clock, req[r].n + 2), clock) = <<>>

\* C4: a request whose candle fetch fails answers 503 SNAPSHOT_NOT_READY and
\* leaves the cache as it was (with no closed bar the fetch always fails);
\* and no cache entry ever holds an error response.
C4_FailedFetchNotCached ==
    /\ [](\A ck \in DOMAIN cache :
            /\ "code" \notin DOMAIN cache[ck].payload
            /\ cache[ck].payload.candles # <<>>)
    /\ [][\A r \in Reqs :
            (pc[r] = "klines" /\ pc'[r] # "klines") =>
                /\ NoClosedBars(r) => pc'[r] = "done"
                /\ pc'[r] = "done" =>
                      /\ resp'[r].status = 503
                      /\ resp'[r].body.code = "SNAPSHOT_NOT_READY"
                      /\ cache' = cache]_vars

\* C4 witness: a 503 answer while the cache holds an entry for the key
C4_Witness ==
    \E r \in Reqs :
        /\ resp[r].status = 503
        /\ resp[r].body.message = "klines upstream 503"
        /\ resp[r].key \in DOMAIN cache

GuardFields ==
    {"distance_ok", "spread_ok", "depth_ok", "market_ok",
     "distance_to_EMA200_H1", "atr_m5_percentile", "spread_bps", "depth_top5_qty"}

\* C5: a cache miss that obtained closed candles ends, whatever the regime,
\* trade-history and depth calls meet, with a 200 response whose document
\* holds the four guard booleans and their raw inputs and is the one stored
\* in the cache; only the candle fetch produces a 503.
C5_OnlyCandlesLoadBearing ==
    \A r \in Reqs :
        /\ pc[r] = "enrich" =>
              /\ req[r].candles # <<>>
              /\ \A e \in AllEnrichInputs :
                    LET gs == Payload(req[r].symbol, req[r].t_now, req[r].candles,
                                      FlowStage(req[r].candles, e.upLast, e.upHist),
                                      RegimeStage(e.h1), DepthStage(e.depth)).guards
                    IN  /\ DOMAIN gs = GuardFields
                        /\ {gs.distance_ok, gs.spread_ok, gs.depth_ok, gs.market_ok}
                              \subseteq BOOLEAN
        /\ resp[r].status = 503 => resp[r].via = "error"
        /\ resp[r].via = "miss" =>
              /\ resp[r].status = 200
              /\ DOMAIN resp[r].body.guards = GuardFields
              /\ {resp[r].body.guards.distance_ok, resp[r].body.guards.spread_ok,
                  resp[r].body.guards.depth_ok, resp[r].body.guards.market_ok}
                    \subseteq BOOLEAN
              /\ resp[r].body.guards.spread_bps = resp[r].body.depth_snapshot.spread_bps
              /\ resp[r].body.guards.depth_top5_qty
                    = resp[r].body.depth_snapshot.depth_top5_qty
              /\ resp[r].body.guards.distance_to_EMA200_H1
                    = resp[r].body.regime_h1.distance_to_ema200
              /\ resp[r].key \in DOMAIN cache
              /\ cache[resp[r].key].payload = resp[r].body

\* C5 witness: a 200 answer, stored, although the regime, the trade history
\* and the depth calls all failed
C5_Witness ==
    \E r \in Reqs :
        /\ resp[r].via = "miss"
        /\ resp[r].status = 200
        /\ resp[r].body.flow_last_candle.coverage = "unknown"
        /\ resp[r].body.depth_snapshot.spread_bps = SPREAD_SENTINEL
        /\ resp[r].body.regime_h1.atr14_h1 = 0
        /\ resp[r].body.regime_h1.close = 0
        /\ cache[resp[r].key].payload = resp[r].body

\* C6: every cache entry's expiry is max(server_time + 5 s, last candle
\* close_time + bar duration) of its document, hence at least 5 s after the
\* document's server_time and not before the next bar close.
C6_ExpiryIsMax ==
    \A ck \in DOMAIN cache :
        /\ cache[ck].expires
              = Max(cache[ck].payload.server_time + MinTtlMs,
                    NextClose(cache[ck].payload))
        /\ cache[ck].expires >= cache[ck].payload.server_time + MinTtlMs
        /\ cache[ck].expires >= NextClose(cache[ck].payload)

\* C6 witness: an entry whose expiry is set by the 5 s floor, beyond the
\* next bar close
C6_Witness ==
    \E ck \in DOMAIN cache :
        /\ cache[ck].expires = cache[ck].payload.server_time + MinTtlMs
        /\ cache[ck].expires > NextClose(cache[ck].payload)


IsLower(c) == IndexIn(c, LowerLetters) > 0

\* two texts that differ at most in the case of their letters
SameButCase(a, b) ==
    /\ Len(a) = Len(b)
    /\ \A i \in 1..Len(a) :
          \/ a[i] = b[i]
          \/ IsLower(a[i]) /\ b[i] = UpperLetters[IndexIn(a[i], LowerLetters)]
          \/ IsLower(b[i]) /\ a[i] = UpperLetters[IndexIn(b[i], LowerLetters)]

\* two n arguments that are the same number, or numbers both below 20, or
\* numbers both above 100
SameCount(a, b) ==
    /\ a.present /\ b.present
    /\ ParseInt(a.text).ok /\ ParseInt(b.text).ok
    /\ \/ ParseInt(a.text).val = ParseInt(b.text).val
       \/ ParseInt(a.text).val < MinN /\ ParseInt(b.text).val < MinN
       \/ ParseInt(a.text).val > MaxN /\ ParseInt(b.text).val > MaxN

\* the requests a normalised request is compared with
Peers ==
    [symbol : SymArgs,
     n : {Arg(<<"5">>), Arg(<<"-","1">>), Arg(<<"1","9">>), Arg(<<"2","0">>),
          Arg(<<"5","0">>), Arg(<<" ","5","0">>), Arg(<<"1","0","0">>),
          Arg(<<"1","0","1">>), Arg(<<"5","0","0">>)}]

Unparsable ==
    {Arg(<<>>), Arg(<<"a">>), Arg(<<"a","b","c">>), Arg(<<"5","a">>),
     Arg(<<"-">>), Arg(<<"1"," ","5">>), Arg(<<"5","-">>)}

\* C7: for every n argument the bar count of the key lies in [20, 100] (5
\* gives 20, 500 gives 100, an absent or unparsable one the default, a number
\* in range itself); the symbol of the key has no lower-case letter and is
\* the argument up to case; and requests that differ only in symbol case or
\* in out-of-range n values with the same clamp have the same key.
C7_Normalised ==
    nOut # <<>> =>
        /\ nOut[2] \in MinN..MaxN
        /\ nIn.n = Arg(<<"5">>) => nOut[2] = 20
        /\ nIn.n = Arg(<<"5","0","0">>) => nOut[2] = 100
        /\ nIn.n = Arg(<<"5","5">>) => nOut[2] = 55
        /\ nIn.n = Arg(<<"1","0","0">>) => nOut[2] = 100
        /\ nIn.n = Arg(<<"-","5","0">>) => nOut[2] = 20
        /\ nIn.n \in Unparsable \cup {NoArg} => nOut[2] = DEFAULT_N
        /\ \A i \in 1..Len(nOut[1]) : ~IsLower(nOut[1][i])
        /\ nIn.symbol.present => SameButCase(nOut[1], nIn.symbol.text)
        /\ ~nIn.symbol.present => nOut[1] = DefaultSymbol
        /\ \A o \in Peers :
              (/\ o.symbol.present /\ nIn.symbol.present
               /\ SameButCase(o.symbol.text, nIn.symbol.text)
               /\ SameCount(o.n, nIn.n))
              => CacheKey(o.symbol, o.n) = nOut

\* C7 witness: symbol btc with n = 500 normalised to the key (BTC, 100)
C7_Witness ==
    /\ nIn = [symbol |-> Arg(<<"b","t","c">>), n |-> Arg(<<"5","0","0">>)]
    /\ nOut = << <<"B","T","C">>, 100 >>

\* C8: the paginated fetch issues at most 50 page requests and terminates,
\* whatever the exchange answers.
C8_BoundedPages ==
    /\ [](agg.st.pages <= SAFETY_MAX /\ agg.st.safety <= SAFETY_MAX + 1)
    /\ <>(agg.st.pc # "loop")

\* C8 witness: a fetch ended by the ceiling, after 50 page requests
C8_Witness ==
    /\ agg.st.pc = "returned"
    /\ agg.st.pages = SAFETY_MAX
    /\ agg.st.safety = SAFETY_MAX + 1

\* C9 (as stated): the paginated fetch never signals an error to its caller.
C9_NeverRaises == agg.st.pc # "raised"

\* C10 (as stated): when the trade-history query for the last candle's
\* window fails or brings no trade, the flow block is all zero with coverage
\* "unknown"; coverage is "full" only when trades were retrieved.
C10_FlowDegradationFlagged ==
    \A r \in Reqs :
        resp[r].via = "miss" =>
            /\ (resp[r].lastFetch.failed \/ resp[r].lastFetch.ntrades = 0) =>
                  /\ resp[r].body.flow_last_candle.buy_volume = 0
                  /\ resp[r].body.flow_last_candle.sell_volume = 0
                  /\ resp[r].body.flow_last_candle.delta = 0
                  /\ resp[r].body.flow_last_candle.coverage = "unknown"
            /\ resp[r].body.flow_last_candle.coverage = "full" =>
                  resp[r].lastFetch.ntrades > 0

\* the document the cache-miss request in slot r returns and stores when its
\* regime, trade-history and depth calls meet e
DocFor(r, e) ==
    Payload(req[r].symbol, req[r].t_now, req[r].candles,
            FlowStage(req[r].candles, e.upLast, e.upHist),
            RegimeStage(e.h1), DepthStage(e.depth))

RegimeNumbers == {"ema200", "slope_dir", "close", "atr14_h1", "distance_to_ema200"}

\* C11 (as stated): when the regime computation fails, the document returned
\* and stored has a regime block with every numeric field zero, regime_above
\* and regime_below false, and an error annotation.
C11_RegimeDegradationFlagged ==
    \A r \in Reqs :
        pc[r] = "enrich" =>
            \A e \in AllEnrichInputs :
                compute_regime_h1(e.h1).raised =>
                    LET rg == DocFor(r, e).regime_h1
                    IN  /\ \A f \in RegimeNumbers : rg[f] = 0
                        /\ ~rg.regime_above
                        /\ ~rg.regime_below
                        /\ "error" \in DOMAIN rg

\* C12 (as stated): a candle fetch that meets a failure is issued again at
\* least once before the request answers SNAPSHOT_NOT_READY for it.
C12_KlinesRetried ==
    \A r \in Reqs :
        (resp[r].status = 503 /\ resp[r].body.message = "klines upstream 503")
            => resp[r].calls >= 2

ClosedBars(n) ==
    {i \in firstBar..(clock \div INTERVAL_MS) :
        /\ i > (clock \div INTERVAL_MS) - (n + 2)
        /\ (i + 1) * INTERVAL_MS <= clock}

DocFields ==
    {"symbol", "interval", "server_time", "candles", "flow_last_candle",
     "indicators", "regime_h1", "depth_snapshot", "guards", "meta"}

CompleteEntry(ck) ==
    /\ DOMAIN cache[ck] = {"expires", "payload"}
    /\ DOMAIN cache[ck].payload = DocFields
    /\ cache[ck].payload.symbol = ck[1]
    /\ cache[ck].payload.candles # <<>>
    /\ cache[ck].expires
          = Expires(cache[ck].payload.server_time,
                    cache[ck].payload.candles[Len(cache[ck].payload.candles)].close_time)

\* C15: in every state each cache entry is complete (an expiry and a fully
\* assembled document, the expiry computed from that document); an entry
\* appears or changes only in the step in which one request finishes, and is
\* then exactly that request's document; entries never disappear.
C15_CompleteEntries ==
    /\ [](\A ck \in DOMAIN cache : CompleteEntry(ck))
    /\ [][/\ DOMAIN cache \subseteq DOMAIN cache'
          /\ \A ck \in DOMAIN cache' :
                (ck \notin DOMAIN cache \/ cache'[ck] # cache[ck]) =>
                    \E r \in Reqs :
                        /\ pc[r] = "enrich"
                        /\ pc'[r] = "done"
                        /\ resp'[r].via = "miss"
                        /\ resp'[r].key = ck
                        /\ cache'[ck].payload = resp'[r].body]_vars

\* C15 witness: a request is answered from the cache while another request
\* for the same key is between its candle fetch and its store, and the entry
\* read is a finished request's document
C15_Witness ==
    \E r, q \in Reqs :
        /\ r # q
        /\ pc[r] = "enrich"
        /\ resp[q].via = "hit"
        /\ resp[q].key = <<req[r].symbol, req[r].n>>
        /\ resp[q].body = cache[resp[q].key].payload

\* C16 (as stated): against an exchange that honours time range and page
\* size and fails no request, a trade fetch that returns before the page
\* ceiling returns the trades of the window, each exactly once, in order.
C16_EveryTradeOnce ==
    (/\ agg.up.mode = "honest"
     /\ agg.up.failAt = 0
     /\ agg.st.pc = "returned"
     /\ agg.st.pages < SAFETY_MAX)
        => agg.st.out = SelectRange(Shift(agg.up.tape, agg.st.winStart),
                                    agg.st.winStart, agg.st.endTime)

LastCloseOf(entry) == entry.payload.candles[Len(entry.payload.candles)].close_time

\* C17 (as stated): a store into the cache never replaces an entry by a
\* document whose last candle closed earlier.
C17_FreshnessNeverRegresses ==
    [][\A ck \in DOMAIN cache \cap DOMAIN cache' :
          LastCloseOf(cache'[ck]) >= LastCloseOf(cache[ck])]_vars

\* C18 (as stated): every bar the 1h candle fetch returns has ended by the
\* time of the fetch: open_time plus one hour is not later than that time.
C18_NoOpenIntervalBar ==
    (reg.pc = "done" /\ ~reg.raised) =>
        \A i \in 1..Len(reg.candles) :
            reg.candles[i].open_time + H1_MS <= reg.now

\* C19 (as stated): a document built from fewer than 15 closed base candles
\* has a base ATR of 0 and market_ok false.
C19_MarketFailsClosed ==
    \A r \in Reqs :
        (resp[r].via = "miss" /\ Len(resp[r].body.candles) < AtrWindow + 1) =>
            /\ resp[r].body.indicators.atr14_m5 = 0
            /\ ~resp[r].body.guards.market_ok

\* C20 (as stated): when the regime computation failed or fewer than 200
\* closed 1h candles were returned, distance_ok is false and the regime is
\* neither above nor below.
C20_DistanceFailsClosed ==
    (reg.pc = "done" /\ (reg.raised \/ Len(reg.candles) < EMA_PERIOD)) =>
        /\ ~reg.guards.distance_ok
        /\ ~reg.regime.regime_above
        /\ ~reg.regime.regime_below

=============================================================================
